---- MODULE Spec2Model ----
(***************************************************************************)
(* Crawl pipeline of ambitful_api: CrawlSource scheduling, the Listing and *)
(* Details queues of CrawlQueueService and the AI draft materializer, and  *)
(* the services around it: ScraperDoService, the listing cache, the        *)
(* AIModelRouter, cleanLLMJson, parseDeadline and the review and           *)
(* publication of a draft by AIDraftService.  Time is counted in half      *)
(* hours.  Every await of the TypeScript code is a separate step, so that  *)
(* workers interleave where the code yields.                               *)
(***************************************************************************)
EXTENDS Integers, Sequences, FiniteSets, Bags, TLC

\* ---------------------------------------------------------------- bounds
MaxFetchCalls == 3
MaxFetchTicks == 2
MaxListingJobs == 2
MaxEntries == 2
MaxTicks == 1
MaxDetailJobs == 2
MaxFaults == 2
MaxCacheSteps == 50
MaxDrafts == 2
MaxConfigs == 3
KeysPerConfig == 2
MaxItems == 2

\* how many calls of reviewAIDraft and publishAIDraft are made on the draft
MaxReviewCalls == 3

\* ------------------------------------------------------ program constants
HOUR == 2
DAY == 24 * HOUR
ListingConcurrency == 5
DetailsConcurrency == 10
DefaultAttempts == 3
ErrorMessageMax == 500
CACHE_TTL_HOURS == 24
STALE_CACHE_HOURS == 23
DEFAULT_DEADLINE_DAYS == 30
DeployedConfigs == 1
ManualPriority == 10
BulkPriority == 8
SweepPriority == 5
DetailsPriority == 5

\* ------------------------------------------------------------ input sets
SourceIds == {"s1", "s2"}
OppIds == {"o1", "o2"}
TickHours == DAY
ScrapeErrorLens == {487}

Min(a, b) == IF a < b THEN a ELSE b

\* A string is represented by its text and the number of its characters
\* that are kept, so that a prefix of a string is a different value.
Str(text, len) == [text |-> text, len |-> len]

slice(m, n) == [m EXCEPT !.len = Min(m.len, n)]

\* `Crawl failed: ${errors.join(', ')}` : 14 characters + the scraper error
CrawlFailedMessage(e) == Str(<<"Crawl failed: ">> \o e.text, 14 + e.len)

NoOpportunitiesMessage == Str(<<"No opportunities found">>, 22)

LinkedInNotImplemented == Str(<<"LinkedIn scraper not yet implemented">>, 36)

ScrapeErrors == {Str(<<"scrape error">>, n) : n \in ScrapeErrorLens}

\* null in a string column
NullMessage == Str(<<>>, 0)

\* null in a date column
NoTime == 0 - 1

\* all listings a listing page can yield: sequences of entries (opportunity ids)
RECURSIVE SeqsUpTo(_, _)
SeqsUpTo(S, n) ==
  IF n = 0 THEN {<<>>}
  ELSE LET shorter == SeqsUpTo(S, n - 1)
       IN shorter \cup {Append(q, x) : q \in {r \in shorter : Len(r) = n - 1}, x \in S}

\* listings are taken up to the naming of the opportunities: the first entry is o1
Listings == {l \in SeqsUpTo(OppIds, MaxEntries) : Len(l) > 0 => l[1] = "o1"}

Range(q) == {q[i] : i \in 1..Len(q)}

\* ------------------------------------------------------------- CrawlSource
Url(s) == <<"https://listing", s>>

calculateNextCrawlTime(frequency, t) ==
  CASE frequency = "DAILY" -> t + 24 * HOUR
    [] frequency = "WEEKLY" -> t + 7 * 24 * HOUR
    [] frequency = "MONTHLY" -> t + 30 * 24 * HOUR
    [] OTHER -> t + 7 * 24 * HOUR

createCrawlSource(frequency, scraperType, isDetailsCrawled, isActive, nextCrawlAt) ==
  [frequency |-> frequency, scraperType |-> scraperType, status |-> "INACTIVE",
   isActive |-> isActive, isDetailsCrawled |-> isDetailsCrawled,
   lastCrawledAt |-> NoTime, nextCrawlAt |-> nextCrawlAt,
   opportunitiesFound |-> 0, errorMessage |-> NullMessage]

updateCrawlSourceStatus(src, status, t) ==
  [src EXCEPT !.status = status, !.lastCrawledAt = t, !.errorMessage = NullMessage]

\* a success update that forgets to leave the ACTIVE status
updateCrawlSourceSuccessKeepsStatus(src, crawlSource, foundCount, t) ==
  [src EXCEPT !.opportunitiesFound = crawlSource.opportunitiesFound + foundCount,
              !.lastCrawledAt = t]

updateCrawlSourceSuccess(src, crawlSource, foundCount, t) ==
  [src EXCEPT !.status = "INACTIVE",
              !.opportunitiesFound = crawlSource.opportunitiesFound + foundCount,
              !.lastCrawledAt = t]

\* an error update that stores the whole message
updateCrawlSourceErrorWhole(src, errorMessage) ==
  [src EXCEPT !.status = "ERROR", !.errorMessage = errorMessage]

updateCrawlSourceError(src, errorMessage) ==
  [src EXCEPT !.status = "ERROR", !.errorMessage = slice(errorMessage, ErrorMessageMax)]

\* ----------------------------------------------------------------- scrapers
constructOpportunityDetailsPage(scraperType, opportunityId) ==
  IF scraperType = "LINKEDIN"
  THEN <<"https://www.linkedin.com/jobs/view/", opportunityId>>
  ELSE <<"https://opportunitiesforafricans.com/", opportunityId>>

ScrapingResult(success, listings, errors) ==
  [success |-> success, opportunity_listings |-> listings,
   total_found |-> Len(listings), errors |-> errors]

\* ScraperFactory: the types with a registered scraper
RegisteredScrapers == {"OPPORTUNITY_FOR_AFRICANS", "INDEED", "LINKEDIN"}

\* a scraper type that no scraper is registered for
UnknownScraperType == "GLASSDOOR"

\* ScraperFactory.getScraper: whether it returns a scraper (else it throws)
getScraper(scraperType) == scraperType \in RegisteredScrapers

\* `Scraper not found for type: ${type}` : 28 characters + the 9 of the type
ScraperNotFoundMessage(scraperType) ==
  Str(<<"Scraper not found for type: ", scraperType>>, 28 + 9)

\* the outcomes scrapeOpportunityListing can return for a scraper type
scrapeOpportunityListing(scraperType) ==
  IF scraperType = "LINKEDIN"
  THEN {ScrapingResult(FALSE, <<>>, <<LinkedInNotImplemented>>)}
  ELSE {ScrapingResult(TRUE, l, <<>>) : l \in Listings}
       \cup {ScrapingResult(FALSE, <<>>, <<e>>) : e \in ScrapeErrors}

\* -------------------------------------------------------------------- cache
buildCacheKey(crawlSourceId, url) == <<"crawl_listings", crawlSourceId, url[2]>>

VARIABLES
  sources,      \* the CrawlSource table
  listingJobs,  \* the jobs of the 'listing-crawl' queue, in the order they were added
  detailJobs,   \* the jobs of the 'details-crawl' queue
  drafts,       \* the AIDraft table
  cache,        \* the listing batches kept in redis
  now,          \* the clock, in units of 1/HOUR hours
  sweep,        \* the scheduleRecurringCrawls call under way
  faults,       \* how many external calls have failed so far
  overlapped,   \* history: whether two job attempts ever ran at the same time
  response,     \* ScraperDoService: the response object all calls of scrape share
  scraperCache, \* ScraperDoService: the redis entries 'scraper:<url>'
  calls,        \* ScraperDoService: the calls of scrape made so far
  read,         \* the outcome of the last getCachedData of a Detail job
  router,       \* AIModelRouter: currentConfigIndex and apiKeyIndices
  generated,    \* AIModelRouter: the outcome of the last generate
  cleaned,      \* the last call of cleanLLMJson and its outcome
  deadline,     \* the last call of parseDeadlineWithFallback and its outcome
  review        \* AIDraftService: one draft, the opportunities made from it, the calls on it

pipelineVars == <<sources, listingJobs, detailJobs, drafts, cache, now, sweep, faults, overlapped>>

fetcherVars == <<response, scraperCache, calls>>

routerVars == <<router, generated>>

\* the state of the services that the steps of the crawl pipeline leave alone
outsideVars == <<fetcherVars, read, routerVars, cleaned, deadline, review>>

vars == <<pipelineVars, outsideVars>>

\* ------------------------------------------------------------------- queues
\* what processListingCrawl uses of the row it read with getCrawlSource
getCrawlSource(src) ==
  [isDetailsCrawled |-> src.isDetailsCrawled, opportunitiesFound |-> src.opportunitiesFound]

NoSnapshot == [isDetailsCrawled |-> FALSE, opportunitiesFound |-> 0]

NoResult == ScrapingResult(FALSE, <<>>, <<>>)

\* listingQueue.add('crawl-listing', data, {priority, delay, attempts: 3, backoff})
queueListingCrawl(crawlSourceId, url, scraperType, origin, priority) ==
  [crawlSourceId |-> crawlSourceId, url |-> url, scraperType |-> scraperType,
   origin |-> origin, priority |-> priority, attempts |-> DefaultAttempts,
   state |-> "waiting", attemptsMade |-> 0, pc |-> "idle",
   crawlSource |-> NoSnapshot, result |-> NoResult, idx |-> 0, created |-> 0,
   unsaved |-> 0, error |-> NullMessage]

\* detailsQueue.add('crawl-details', data, {priority, delay, attempts: 3, backoff})
queueDetailsCrawl(crawlSourceId, opportunityId, scraperType, cacheKey, parent) ==
  [crawlSourceId |-> crawlSourceId, opportunityId |-> opportunityId,
   scraperType |-> scraperType, cacheKey |-> cacheKey, parent |-> parent,
   priority |-> DetailsPriority, attempts |-> DefaultAttempts,
   state |-> "waiting", attemptsMade |-> 0, pc |-> "idle", aiDraftCreated |-> FALSE,
   missed |-> FALSE]

CacheKeys == {buildCacheKey(s, Url(s)) : s \in SourceIds}

\* (written is history: the entries of all the batches ever stored under the key)
NoCacheEntry == [listings |-> <<>>, timestamp |-> NoTime, expiresAt |-> NoTime,
                 crawlSourceId |-> "", isDetailsCrawled |-> FALSE, written |-> {}]

ActiveListing == {j \in DOMAIN listingJobs : listingJobs[j].state = "active"}

ActiveDetails == {j \in DOMAIN detailJobs : detailJobs[j].state = "active"}

\* ------------------------------------------------- services at rest
\* ScraperDoService after construction: response = { data: null, error: null }
NoData == <<>>

NoError == <<>>

FetchUrls == {"u1", "u2"}

NoCached == [data |-> NoData, expiresAt |-> NoTime]

\* no getCachedData has been made
NoRead == [found |-> FALSE, listings |-> <<>>, staleWarning |-> FALSE, age |-> NoTime]

\* new AIModelRouter(configs), for a list of n configs: currentConfigIndex = 0
\* and apiKeyIndices[i] = 0 for each of them
AIModelRouter(n) ==
  [configs |-> 0..(n - 1), currentConfigIndex |-> 0, apiKeyIndices |-> [i \in 0..(n - 1) |-> 0]]

\* the services outside the crawl pipeline, at rest, the router having n configs
\* opportunityId: null
NoOpportunity == 0

OutsideInit(n) ==
  /\ response = [data |-> NoData, error |-> NoError]
  /\ scraperCache = [u \in FetchUrls |-> NoCached]
  /\ calls = <<>>
  /\ read = NoRead
  /\ router = AIModelRouter(n)
  /\ generated = [called |-> FALSE]
  /\ cleaned = [called |-> FALSE]
  /\ deadline = [called |-> FALSE]
  /\ review = [status |-> "PENDING", opportunityId |-> NoOpportunity, opportunities |-> 0,
               calls |-> <<>>]

\* the tables and queues at the start, the second source having scraper type type2
InitPipeline(type2) ==
  /\ \E d1 \in BOOLEAN, a2 \in BOOLEAN :
       sources = [s \in SourceIds |->
         IF s = "s1"
         THEN createCrawlSource("DAILY", "OPPORTUNITY_FOR_AFRICANS", d1, TRUE,
                                calculateNextCrawlTime("DAILY", 0))
         ELSE createCrawlSource("WEEKLY", type2, TRUE, a2, 0)]
  /\ listingJobs = <<>>
  /\ detailJobs = <<>>
  /\ drafts = EmptyBag
  /\ cache = [k \in CacheKeys |-> NoCacheEntry]
  /\ now = 0
  /\ sweep = [pc |-> "idle", selected |-> <<>>, i |-> 0, jobsQueued |-> 0]

InitData == InitPipeline("LINKEDIN")

Init == InitData /\ faults = 0 /\ overlapped = FALSE /\ OutsideInit(DeployedConfigs)

\* the scheduling runs: the external calls that can succeed do succeed
InitSchedule == InitData /\ faults = MaxFaults /\ overlapped = FALSE /\ OutsideInit(DeployedConfigs)

\* the runs with a source whose scraper type has no registered scraper
InitConfig ==
  InitPipeline(UnknownScraperType) /\ faults = MaxFaults /\ overlapped = FALSE /\ OutsideInit(DeployedConfigs)

\* ----------------------------------------------------------------- triggers
\* the Listing jobs that may still be created within the bound, counting the
\* ones a sweep under way is going to create
SweepPending ==
  CASE sweep.pc = "queue" -> Len(sweep.selected) - sweep.i + 1
    [] sweep.pc = "update" -> Len(sweep.selected) - sweep.i
    [] OTHER -> 0

Capacity == MaxListingJobs - Len(listingJobs) - SweepPending

\* CrawlSourceService.triggerCrawl: manual trigger of one source
\* findUnique finds no row (NotFoundException) or an inactive one
\* (ConflictException): the call throws before it queues anything
triggerCrawl(s) ==
  /\ Capacity >= 1
  /\ s \in DOMAIN sources
  /\ sources[s].isActive
  /\ listingJobs' = Append(listingJobs,
        queueListingCrawl(s, Url(s), sources[s].scraperType, "manual", ManualPriority))
  /\ UNCHANGED <<sources, detailJobs, drafts, cache, now, sweep, faults, overlapped>>
  /\ UNCHANGED outsideVars

\* a bulk trigger that skips the missing sources only
bulkJobsAnyActivity(ids) ==
  LET present == SelectSeq(ids, LAMBDA id : id \in DOMAIN sources)
  IN [i \in 1..Len(present) |->
        queueListingCrawl(present[i], Url(present[i]), sources[present[i]].scraperType,
                          "bulk", BulkPriority)]

\* CrawlSourceService.triggerBulkCrawl: one job per id whose source exists and is active
RECURSIVE bulkJobs(_)
bulkJobs(ids) ==
  IF ids = <<>> THEN <<>>
  ELSE LET id == Head(ids)
       IN (IF id \in DOMAIN sources /\ sources[id].isActive
           THEN <<queueListingCrawl(id, Url(id), sources[id].scraperType, "bulk", BulkPriority)>>
           ELSE <<>>) \o bulkJobs(Tail(ids))

\* the ids a trigger is called with: those of the table and one that is in no row
TriggerIds == SourceIds \cup {"s0"}

BulkInputs == SeqsUpTo(TriggerIds, 2) \ {<<>>}

\* jobIds.push(job.id?.toString() || 'unknown'): the ids of the jobs added, a
\* job's id being its place in the queue
bulkJobIds(ids) == [i \in 1..Len(bulkJobs(ids)) |-> Len(listingJobs) + i]

triggerBulkCrawl(crawlSourceIds) ==
  /\ Len(bulkJobs(crawlSourceIds)) <= Capacity
  /\ listingJobs' = listingJobs \o bulkJobs(crawlSourceIds)
  /\ UNCHANGED <<sources, detailJobs, drafts, cache, now, sweep, faults, overlapped>>
  /\ UNCHANGED outsideVars

\* -------------------------------------------------- scheduleRecurringCrawls
\* a selection that forgets the isActive flag
dueCrawlSourcesAnyActivity(t) == {s \in SourceIds : sources[s].nextCrawlAt <= t}

\* prisma.crawlSource.findMany({ where: { isActive: true, nextCrawlAt: { lte: now } } })
dueCrawlSources(t) == {s \in SourceIds : sources[s].isActive /\ sources[s].nextCrawlAt <= t}

\* the rows of a findMany, in the order of their ids
RECURSIVE rows(_)
rows(S) ==
  IF S = {} THEN <<>>
  ELSE LET s == CHOOSE x \in S : \A y \in S : x = y \/ x = "s1"
       IN <<s>> \o rows(S \ {s})

\* the sweep starts; with no due source it returns { jobsQueued: 0 } at once
SweepFindMany ==
  /\ sweep.pc = "idle"
  /\ LET crawlSources == rows(dueCrawlSources(now))
     IN /\ Len(crawlSources) <= Capacity
        /\ sweep' = [pc |-> IF crawlSources = <<>> THEN "idle" ELSE "queue",
                     selected |-> crawlSources,
                     i |-> IF crawlSources = <<>> THEN 0 ELSE 1, jobsQueued |-> 0]
  /\ UNCHANGED <<sources, listingJobs, detailJobs, drafts, cache, now, faults, overlapped>>
  /\ UNCHANGED outsideVars

\* await crawlQueueService.queueListingCrawl({...}, { priority: 5, delay })
SweepQueue ==
  /\ sweep.pc = "queue"
  /\ LET s == sweep.selected[sweep.i]
     IN listingJobs' = Append(listingJobs,
          queueListingCrawl(s, Url(s), sources[s].scraperType, "sweep", SweepPriority))
  /\ sweep' = [sweep EXCEPT !.pc = "update"]
  /\ UNCHANGED <<sources, detailJobs, drafts, cache, now, faults, overlapped>>
  /\ UNCHANGED outsideVars

\* await prisma.crawlSource.update({ data: { nextCrawlAt } }); jobsQueued++
SweepUpdate ==
  /\ sweep.pc = "update"
  /\ LET s == sweep.selected[sweep.i]
     IN sources' = [sources EXCEPT ![s].nextCrawlAt =
                      calculateNextCrawlTime(sources[s].frequency, now)]
  /\ sweep' = IF sweep.i < Len(sweep.selected)
              THEN [sweep EXCEPT !.pc = "queue", !.i = sweep.i + 1,
                                 !.jobsQueued = sweep.jobsQueued + 1]
              ELSE [sweep EXCEPT !.pc = "idle", !.i = 0,
                                 !.jobsQueued = sweep.jobsQueued + 1]
  /\ UNCHANGED <<listingJobs, detailJobs, drafts, cache, now, faults, overlapped>>
  /\ UNCHANGED outsideVars

\* ------------------------------------------------------ processListingCrawl
\* a free listing worker takes a waiting job and runs it up to its first read:
\* const crawlSource = await this.getCrawlSource(crawlSourceId).
\* The queue hands out the waiting job with the least priority number first
\* (in Bull, priority 1 is the highest), in any order among equals.
ListingGetCrawlSource(j) ==
  /\ listingJobs[j].state = "waiting"
  /\ Cardinality(ActiveListing) < ListingConcurrency
  /\ \A k \in DOMAIN listingJobs :
       listingJobs[k].state = "waiting" => listingJobs[j].priority <= listingJobs[k].priority
  /\ listingJobs' = [listingJobs EXCEPT ![j].state = "active", ![j].pc = "setActive",
                        ![j].crawlSource = getCrawlSource(sources[listingJobs[j].crawlSourceId])]
  /\ overlapped' = (overlapped \/ ActiveListing \cup ActiveDetails # {})
  /\ UNCHANGED <<sources, detailJobs, drafts, cache, now, sweep, faults>>
  /\ UNCHANGED outsideVars

\* await this.updateCrawlSourceStatus(crawlSourceId, 'ACTIVE')
ListingSetActive(j) ==
  /\ listingJobs[j].state = "active" /\ listingJobs[j].pc = "setActive"
  /\ sources' = [sources EXCEPT ![listingJobs[j].crawlSourceId] =
                    updateCrawlSourceStatus(@, "ACTIVE", now)]
  /\ listingJobs' = [listingJobs EXCEPT ![j].pc = "scrape"]
  /\ UNCHANGED <<detailJobs, drafts, cache, now, sweep, faults, overlapped>>
  /\ UNCHANGED outsideVars

\* the message of the Error thrown when the scrape result is unusable
scrapeFailureMessage(result) ==
  IF Len(result.errors) > 0 THEN CrawlFailedMessage(result.errors[1])
  ELSE NoOpportunitiesMessage

\* Detail jobs that listing jobs already under way are going to enqueue
RECURSIVE SumFound(_)
SumFound(js) ==
  IF js = {} THEN 0
  ELSE LET j == CHOOSE x \in js : TRUE
       IN listingJobs[j].result.total_found + SumFound(js \ {j})

PendingDetails ==
  SumFound({j \in ActiveListing : /\ listingJobs[j].crawlSource.isDetailsCrawled
                                  /\ listingJobs[j].pc \in {"cacheListings", "queueDetails"}})

\* const scraper = this.getScraper(scraperType), which throws for an unknown type;
\* const result = await scraper.scrapeOpportunityListing(url), and the check of it
ListingScrape(j) ==
  /\ listingJobs[j].state = "active" /\ listingJobs[j].pc = "scrape"
  /\ IF ~getScraper(listingJobs[j].scraperType)
     THEN /\ listingJobs' = [listingJobs EXCEPT
                ![j].error = ScraperNotFoundMessage(listingJobs[j].scraperType),
                ![j].pc = "updateError"]
          /\ faults' = faults
     ELSE \E result \in scrapeOpportunityListing(listingJobs[j].scraperType) :
       LET unusable == ~result.success \/ Len(result.opportunity_listings) = 0
           injected == unusable /\ listingJobs[j].scraperType # "LINKEDIN"
       IN /\ injected => faults < MaxFaults
          /\ listingJobs[j].crawlSource.isDetailsCrawled
               => Len(detailJobs) + PendingDetails + result.total_found <= MaxDetailJobs
          /\ faults' = IF injected THEN faults + 1 ELSE faults
          /\ listingJobs' = [listingJobs EXCEPT
               ![j].result = result,
               ![j].error = IF unusable THEN scrapeFailureMessage(result) ELSE NullMessage,
               ![j].pc = IF unusable THEN "updateError" ELSE "cacheListings"]
  /\ UNCHANGED <<sources, detailJobs, drafts, cache, now, sweep, overlapped>>
  /\ UNCHANGED outsideVars

\* a cache write that loses the first entry of the batch
cacheListingsButFirst(listings, crawlSourceId, crawlSource, t) ==
  [listings |-> Tail(listings), timestamp |-> t, expiresAt |-> t + CACHE_TTL_HOURS * HOUR,
   crawlSourceId |-> crawlSourceId, isDetailsCrawled |-> crawlSource.isDetailsCrawled]

\* await this.cacheListings(cacheKey, listings, crawlSourceId, url, crawlSource)
cacheListings(listings, crawlSourceId, crawlSource, t) ==
  [listings |-> listings, timestamp |-> t, expiresAt |-> t + CACHE_TTL_HOURS * HOUR,
   crawlSourceId |-> crawlSourceId, isDetailsCrawled |-> crawlSource.isDetailsCrawled]

ListingCache(j) ==
  /\ listingJobs[j].state = "active" /\ listingJobs[j].pc = "cacheListings"
  /\ LET job == listingJobs[j]
         entry == cacheListings(job.result.opportunity_listings, job.crawlSourceId,
                                job.crawlSource, now)
     IN /\ cache' = [cache EXCEPT ![buildCacheKey(job.crawlSourceId, job.url)] =
                entry @@ [written |-> @.written \cup Range(entry.listings)]]
        /\ listingJobs' = [listingJobs EXCEPT
              ![j].pc = IF job.crawlSource.isDetailsCrawled THEN "queueDetails" ELSE "draftFind",
              ![j].idx = 1]
  /\ UNCHANGED <<sources, detailJobs, drafts, now, sweep, faults, overlapped>>
  /\ UNCHANGED outsideVars

\* a fan-out that loses the last entry of the batch
queueDetailsCrawlJobsButLast(listings, crawlSourceId, scraperType, cacheKey, parent) ==
  [i \in 1..(Len(listings) - 1) |->
     queueDetailsCrawl(crawlSourceId, listings[i], scraperType, cacheKey, parent)]

\* await this.queueDetailsCrawlJobs(listings, crawlSourceId, scraperType, cacheKey)
queueDetailsCrawlJobs(listings, crawlSourceId, scraperType, cacheKey, parent) ==
  [i \in 1..Len(listings) |->
     queueDetailsCrawl(crawlSourceId, listings[i], scraperType, cacheKey, parent)]

ListingQueueDetails(j) ==
  /\ listingJobs[j].state = "active" /\ listingJobs[j].pc = "queueDetails"
  /\ LET job == listingJobs[j]
         jobs == queueDetailsCrawlJobs(job.result.opportunity_listings, job.crawlSourceId,
                   job.scraperType, buildCacheKey(job.crawlSourceId, job.url), j)
     IN /\ detailJobs' = detailJobs \o jobs
        /\ listingJobs' = [listingJobs EXCEPT ![j].pc = "updateSuccess"]
  /\ UNCHANGED <<sources, drafts, cache, now, sweep, faults, overlapped>>
  /\ UNCHANGED outsideVars

\* ------------------------------------------------------------ createAIDraft
\* an existence check that never finds the draft
existingDraftNever(sourceUrl, crawlSourceId) == {}

\* prisma.aIDraft.findFirst({ where: { sourceUrl, crawlSourceId } })
existingDraft(sourceUrl, crawlSourceId) ==
  {d \in BagToSet(drafts) : d.sourceUrl = sourceUrl /\ d.crawlSourceId = crawlSourceId}

\* prisma.aIDraft.create({ data: {...} }): the row added to the table of drafts,
\* a bag, since nothing in the table keeps two rows from being equal
createAIDraft(sourceUrl, crawlSourceId, isDetailsCrawled) ==
  [sourceUrl |-> sourceUrl, crawlSourceId |-> crawlSourceId, status |-> "PENDING",
   isDetailsCrawled |-> isDetailsCrawled]

\* createAIDraftsFromListings: advance the for-loop over the listings
nextListing(job) ==
  IF job.idx < Len(job.result.opportunity_listings)
  THEN [job EXCEPT !.idx = job.idx + 1, !.pc = "draftFind"]
  ELSE [job EXCEPT !.pc = "updateSuccess"]

listingSourceUrl(job) ==
  constructOpportunityDetailsPage(job.scraperType, job.result.opportunity_listings[job.idx])

\* createAIDraft up to its existence check, for the current listing
ListingDraftFind(j) ==
  /\ listingJobs[j].state = "active" /\ listingJobs[j].pc = "draftFind"
  /\ LET job == listingJobs[j]
     IN listingJobs' = [listingJobs EXCEPT ![j] =
          IF existingDraft(listingSourceUrl(job), job.crawlSourceId) # {}
          THEN nextListing(job)
          ELSE [job EXCEPT !.pc = "draftCreate"]]
  /\ UNCHANGED <<sources, detailJobs, drafts, cache, now, sweep, faults, overlapped>>
  /\ UNCHANGED outsideVars

\* a loop over the listings that gives up at the first entry that fails
draftFailedStops(job) == [job EXCEPT !.pc = "updateSuccess", !.unsaved = job.unsaved + 1]

\* createAIDraft's catch logs the error and returns false, and the loop of
\* createAIDraftsFromListings goes on with the next entry; unsaved counts the
\* entries of this attempt that were logged so
draftFailed(job) == nextListing([job EXCEPT !.unsaved = job.unsaved + 1])

\* createAIDraft from its insert on, for the current listing; the insert can fail
ListingDraftCreate(j) ==
  /\ listingJobs[j].state = "active" /\ listingJobs[j].pc = "draftCreate"
  /\ LET job == listingJobs[j]
     IN \E ok \in BOOLEAN :
          /\ ~ok => faults < MaxFaults
          /\ faults' = IF ok THEN faults ELSE faults + 1
          /\ drafts' = IF ok
                        THEN drafts (+) SetToBag({createAIDraft(listingSourceUrl(job),
                                                     job.crawlSourceId, FALSE)})
                        ELSE drafts
          /\ listingJobs' = [listingJobs EXCEPT ![j] =
                IF ok THEN nextListing([job EXCEPT !.created = job.created + 1])
                ELSE draftFailed(job)]
  /\ UNCHANGED <<sources, detailJobs, cache, now, sweep, overlapped>>
  /\ UNCHANGED outsideVars

\* the locals of a finished attempt are gone
listingCompleted(job) ==
  [job EXCEPT !.state = "completed", !.pc = "done", !.attemptsMade = job.attemptsMade + 1,
              !.crawlSource = NoSnapshot, !.result = NoResult, !.idx = 0, !.created = 0,
              !.unsaved = 0]

\* a queue that grants one attempt more than the job's attempts option
afterFailureOneMore(job) ==
  [job EXCEPT !.attemptsMade = job.attemptsMade + 1, !.pc = "done",
              !.state = IF job.attemptsMade + 1 <= job.attempts THEN "waiting" ELSE "failed"]

\* the queue's handling of an attempt that threw: retry while attempts remain
afterFailure(job) ==
  [job EXCEPT !.attemptsMade = job.attemptsMade + 1, !.pc = "done",
              !.state = IF job.attemptsMade + 1 < job.attempts THEN "waiting" ELSE "failed"]

listingFailed(job) ==
  [afterFailure(job) EXCEPT !.crawlSource = NoSnapshot, !.result = NoResult,
                            !.error = NullMessage]

\* await this.updateCrawlSourceSuccess(...); return result  -> the job completes
ListingUpdateSuccess(j) ==
  /\ listingJobs[j].state = "active" /\ listingJobs[j].pc = "updateSuccess"
  /\ LET job == listingJobs[j]
     IN /\ sources' = [sources EXCEPT ![job.crawlSourceId] =
              updateCrawlSourceSuccess(@, job.crawlSource, job.result.total_found, now)]
        /\ listingJobs' = [listingJobs EXCEPT ![j] = listingCompleted(job)]
  /\ UNCHANGED <<detailJobs, drafts, cache, now, sweep, faults, overlapped>>
  /\ UNCHANGED outsideVars

\* catch: await this.updateCrawlSourceError(crawlSourceId, error.message); throw error
ListingUpdateError(j) ==
  /\ listingJobs[j].state = "active" /\ listingJobs[j].pc = "updateError"
  /\ LET job == listingJobs[j]
     IN /\ sources' = [sources EXCEPT ![job.crawlSourceId] =
                          updateCrawlSourceError(@, job.error)]
        /\ listingJobs' = [listingJobs EXCEPT ![j] = listingFailed(job)]
  /\ UNCHANGED <<detailJobs, drafts, cache, now, sweep, faults, overlapped>>
  /\ UNCHANGED outsideVars

\* ------------------------------------------------------ processDetailsCrawl
\* redis.get(cacheKey): the entry while its TTL has not run out
getCachedData(cacheKey, t) ==
  IF cache[cacheKey].timestamp # NoTime /\ t < cache[cacheKey].expiresAt
  THEN {cache[cacheKey]} ELSE {}

\* const { listings } = await this.getCachedData(cacheKey); listings.find(...)
\* (missed records that an attempt of the job threw 'Cache not found')
DetailsGetCachedData(j) ==
  /\ detailJobs[j].state = "waiting"
  /\ Cardinality(ActiveDetails) < DetailsConcurrency
  /\ LET hit == getCachedData(detailJobs[j].cacheKey, now)
         job == [detailJobs[j] EXCEPT !.state = "active",
                                      !.missed = (@ \/ hit = {})]
         found == \E e \in hit : job.opportunityId \in Range(e.listings)
     IN detailJobs' = [detailJobs EXCEPT ![j] =
          IF found THEN [job EXCEPT !.pc = "scrapeDetails"] ELSE afterFailure(job)]
  /\ overlapped' = (overlapped \/ ActiveListing \cup ActiveDetails # {})
  /\ UNCHANGED <<sources, listingJobs, drafts, cache, now, sweep, faults>>
  /\ UNCHANGED outsideVars

\* whether scrapeOpportunityDetails can return details / can throw
scrapeOpportunityDetails(scraperType) ==
  IF scraperType = "LINKEDIN" THEN {FALSE} ELSE {TRUE, FALSE}

\* const scraper = this.getScraper(scraperType);
\* const details = await scraper.scrapeOpportunityDetails(opportunityId)
DetailsScrape(j) ==
  /\ detailJobs[j].state = "active" /\ detailJobs[j].pc = "scrapeDetails"
  /\ \E ok \in IF getScraper(detailJobs[j].scraperType)
                THEN scrapeOpportunityDetails(detailJobs[j].scraperType) ELSE {FALSE} :
       /\ ~ok => faults < MaxFaults
       /\ faults' = IF ok THEN faults ELSE faults + 1
       /\ detailJobs' = [detailJobs EXCEPT ![j] =
             IF ok THEN [@ EXCEPT !.pc = "draftFind"] ELSE afterFailure(@)]
  /\ UNCHANGED <<sources, listingJobs, drafts, cache, now, sweep, overlapped>>
  /\ UNCHANGED outsideVars

detailsSourceUrl(job) == constructOpportunityDetailsPage(job.scraperType, job.opportunityId)

detailsCompleted(job, created) ==
  [job EXCEPT !.state = "completed", !.pc = "done",
              !.attemptsMade = job.attemptsMade + 1, !.aiDraftCreated = created]

DetailsDraftFind(j) ==
  /\ detailJobs[j].state = "active" /\ detailJobs[j].pc = "draftFind"
  /\ LET job == detailJobs[j]
     IN detailJobs' = [detailJobs EXCEPT ![j] =
          IF existingDraft(detailsSourceUrl(job), job.crawlSourceId) # {}
          THEN detailsCompleted(job, FALSE)
          ELSE [job EXCEPT !.pc = "draftCreate"]]
  /\ UNCHANGED <<sources, listingJobs, drafts, cache, now, sweep, faults, overlapped>>
  /\ UNCHANGED outsideVars

\* createAIDraft from its insert on; when the insert fails, createAIDraft's catch
\* returns false and processDetailsCrawl returns { listing, details, aiDraftCreated }
DetailsDraftCreate(j) ==
  /\ detailJobs[j].state = "active" /\ detailJobs[j].pc = "draftCreate"
  /\ LET job == detailJobs[j]
     IN \E ok \in BOOLEAN :
          /\ ~ok => faults < MaxFaults
          /\ faults' = IF ok THEN faults ELSE faults + 1
          /\ drafts' = IF ok
                        THEN drafts (+) SetToBag({createAIDraft(detailsSourceUrl(job),
                                                     job.crawlSourceId, TRUE)})
                        ELSE drafts
          /\ detailJobs' = [detailJobs EXCEPT ![j] = detailsCompleted(job, ok)]
  /\ UNCHANGED <<sources, listingJobs, cache, now, sweep, overlapped>>
  /\ UNCHANGED outsideVars

\* -------------------------------------------------------------------- clock
\* a tick is a day: no attempt of a job and no sweep lasts that long
Tick ==
  /\ now < MaxTicks * TickHours
  /\ ActiveListing = {} /\ ActiveDetails = {} /\ sweep.pc = "idle"
  /\ now' = now + TickHours
  /\ UNCHANGED <<sources, listingJobs, detailJobs, drafts, cache, sweep, faults, overlapped>>
  /\ UNCHANGED outsideVars

ProcessListing ==
  \/ \E j \in DOMAIN listingJobs : ListingGetCrawlSource(j)
  \/ \E j \in DOMAIN listingJobs : ListingSetActive(j)
  \/ \E j \in DOMAIN listingJobs : ListingScrape(j)
  \/ \E j \in DOMAIN listingJobs : ListingCache(j)
  \/ \E j \in DOMAIN listingJobs : ListingQueueDetails(j)
  \/ \E j \in DOMAIN listingJobs : ListingDraftFind(j)
  \/ \E j \in DOMAIN listingJobs : ListingDraftCreate(j)
  \/ \E j \in DOMAIN listingJobs : ListingUpdateSuccess(j)
  \/ \E j \in DOMAIN listingJobs : ListingUpdateError(j)

ProcessDetails ==
  \/ \E j \in DOMAIN detailJobs : DetailsGetCachedData(j)
  \/ \E j \in DOMAIN detailJobs : DetailsScrape(j)
  \/ \E j \in DOMAIN detailJobs : DetailsDraftFind(j)
  \/ \E j \in DOMAIN detailJobs : DetailsDraftCreate(j)

\* the pipeline under manual triggers, with failing external calls
Next ==
  \/ \E s \in TriggerIds : triggerCrawl(s)
  \/ ProcessListing
  \/ ProcessDetails
  \/ Tick

Spec == Init /\ [][Next]_vars

\* the pipeline under every kind of trigger
NextSchedule ==
  \/ \E s \in TriggerIds : triggerCrawl(s)
  \/ \E ids \in BulkInputs : triggerBulkCrawl(ids)
  \/ SweepFindMany
  \/ SweepQueue
  \/ SweepUpdate
  \/ ProcessListing
  \/ ProcessDetails
  \/ Tick

SpecSchedule == InitSchedule /\ [][NextSchedule]_vars

SpecConfig == InitConfig /\ [][Next]_vars

\* --------------------------------------------------------- ScraperDoService
\* retry(fn, { retries: 3 }): the retries after the first attempt
FetchRetries == 3

\* redis.set(cacheKey, ..., 'EX', 60 * 60 * 24)
FetchCacheTtlHours == 24

FetchTickHours == 12

\* what scrape.do returns for a URL: response.data
page(url) == <<"page of", url>>

\* JSON.stringify of a string: the string between quotes
JSONstringify(data) == <<"\"">> \o data \o <<"\"">>

\* e.message of a failed attempt
FetchErrorMessage == <<"Request failed">>

NoResponse == [data |-> <<"none">>, error |-> <<"none">>]

InFlight == {c \in DOMAIN calls : calls[c].pc # "done"}

\* scrape(targetUrl) is called, while fewer than limit calls are under way
FetchStart(url, limit) ==
  /\ Len(calls) < MaxFetchCalls
  /\ Cardinality(InFlight) < limit
  /\ calls' = Append(calls, [url |-> url, pc |-> "get", attempts |-> 0, failed |-> 0,
                             hit |-> FALSE,
                             startedAt |-> now, returnedAt |-> NoTime,
                             result |-> NoResponse])
  /\ UNCHANGED <<response, scraperCache, pipelineVars, read, routerVars, cleaned, deadline, review>>

\* redis.get(cacheKey): the entry while its TTL has not run out
scraperCacheGet(url, t) ==
  IF scraperCache[url].expiresAt # NoTime /\ t < scraperCache[url].expiresAt
  THEN scraperCache[url].data ELSE NoData

\* const cachedData = await redis.get(cacheKey); on a hit:
\* this.response.data = cachedData; return this.response
FetchCacheGet(c) ==
  /\ calls[c].pc = "get"
  /\ LET cachedData == scraperCacheGet(calls[c].url, now)
     IN IF cachedData # NoData
        THEN /\ response' = [response EXCEPT !.data = cachedData]
             /\ calls' = [calls EXCEPT ![c].pc = "done", ![c].hit = TRUE,
                                        ![c].returnedAt = now, ![c].result = response']
        ELSE /\ response' = response
             /\ calls' = [calls EXCEPT ![c].pc = "attempt"]
  /\ UNCHANGED <<scraperCache, pipelineVars, read, routerVars, cleaned, deadline, review>>

\* one attempt of the function given to retry: the request to scrape.do, and on
\* success this.response.error = null; this.response.data = data.  A failed
\* attempt is retried while retries remain; else the catch block sets
\* this.response.error and returns this.response
FetchAttempt(c) ==
  /\ calls[c].pc = "attempt"
  /\ \E ok \in BOOLEAN :
       IF ok
       THEN /\ response' = [data |-> page(calls[c].url), error |-> NoError]
            /\ calls' = [calls EXCEPT ![c].attempts = @ + 1, ![c].pc = "set"]
       ELSE IF calls[c].attempts < FetchRetries
            THEN /\ response' = response
                 /\ calls' = [calls EXCEPT ![c].attempts = @ + 1, ![c].failed = @ + 1]
            ELSE /\ response' = [response EXCEPT !.error = FetchErrorMessage]
                 /\ calls' = [calls EXCEPT ![c].attempts = @ + 1, ![c].failed = @ + 1,
                                            ![c].pc = "done",
                                            ![c].returnedAt = now, ![c].result = response']
  /\ UNCHANGED <<scraperCache, pipelineVars, read, routerVars, cleaned, deadline, review>>

\* await redis.set(cacheKey, JSON.stringify(data), 'EX', 60 * 60 * 24);
\* return this.response
FetchCacheSet(c) ==
  /\ calls[c].pc = "set"
  /\ scraperCache' = [scraperCache EXCEPT ![calls[c].url] =
        [data |-> JSONstringify(page(calls[c].url)),
         expiresAt |-> now + FetchCacheTtlHours * HOUR]]
  /\ calls' = [calls EXCEPT ![c].pc = "done", ![c].returnedAt = now,
                             ![c].result = response]
  /\ UNCHANGED <<response, pipelineVars, read, routerVars, cleaned, deadline, review>>

\* time passes between two calls
FetchTick ==
  /\ now < MaxFetchTicks * FetchTickHours * HOUR
  /\ InFlight = {}
  /\ now' = now + FetchTickHours * HOUR
  /\ UNCHANGED <<sources, listingJobs, detailJobs, drafts, cache, sweep, faults, overlapped>>
  /\ UNCHANGED outsideVars

\* the services are exercised while the pipeline is at rest
InitFetcher == InitPipeline("LINKEDIN") /\ faults = 0 /\ overlapped = FALSE /\ OutsideInit(DeployedConfigs)

\* calls of scrape made one after the other
NextFetcher ==
  \/ \E url \in FetchUrls : FetchStart(url, 1)
  \/ \E c \in DOMAIN calls : FetchCacheGet(c)
  \/ \E c \in DOMAIN calls : FetchAttempt(c)
  \/ \E c \in DOMAIN calls : FetchCacheSet(c)
  \/ FetchTick

SpecFetcher == InitFetcher /\ [][NextFetcher]_vars

\* calls of scrape that overlap on the one exported instance, scraperDo, as the
\* workers of the two queues make them
NextFetcherShared ==
  \/ \E url \in FetchUrls : FetchStart(url, MaxFetchCalls)
  \/ \E c \in DOMAIN calls : FetchCacheGet(c)
  \/ \E c \in DOMAIN calls : FetchAttempt(c)
  \/ \E c \in DOMAIN calls : FetchCacheSet(c)
  \/ FetchTick

SpecFetcherShared == InitFetcher /\ [][NextFetcherShared]_vars

\* ------------------------------------------------------- the listing cache
\* the cache key of the listing page of source s1
ListingKey == buildCacheKey("s1", Url("s1"))

\* a Listing job of s1 reaches cacheListings with the batch it scraped
CacheWrite(listings) ==
  /\ LET entry == cacheListings(listings, "s1", getCrawlSource(sources["s1"]), now)
     IN cache' = [cache EXCEPT ![ListingKey] =
                    entry @@ [written |-> @.written \cup Range(entry.listings)]]
  /\ UNCHANGED <<sources, listingJobs, detailJobs, drafts, now, sweep, faults, overlapped>>
  /\ UNCHANGED outsideVars

\* cacheAgeHours >= STALE_CACHE_HOURS: a warning already at the limit
staleCacheAtLimit(entry, t) == t - entry.timestamp >= STALE_CACHE_HOURS * HOUR

\* cacheAgeHours > STALE_CACHE_HOURS, the condition of logger.warn('Using stale cache')
staleCache(entry, t) == t - entry.timestamp > STALE_CACHE_HOURS * HOUR

\* what a call of getCachedData at time t gives: the listings and the warning it
\* logs, or found = FALSE when it throws 'Cache not found'
readCachedData(cacheKey, t) ==
  IF getCachedData(cacheKey, t) = {} THEN NoRead
  ELSE LET entry == CHOOSE e \in getCachedData(cacheKey, t) : TRUE
       IN [found |-> TRUE, listings |-> entry.listings,
           staleWarning |-> staleCache(entry, t), age |-> t - entry.timestamp]

\* a Detail job of s1 reaches getCachedData
CacheRead ==
  /\ read' = readCachedData(ListingKey, now)
  /\ UNCHANGED <<pipelineVars, fetcherVars, routerVars, cleaned, deadline, review>>

\* half an hour passes
CacheStep ==
  /\ now < MaxCacheSteps
  /\ now' = now + 1
  /\ UNCHANGED <<sources, listingJobs, detailJobs, drafts, cache, sweep, faults, overlapped>>
  /\ UNCHANGED outsideVars

NextCache ==
  \/ \E listings \in {<<"o1">>, <<"o1", "o2">>} : CacheWrite(listings)
  \/ CacheRead
  \/ CacheStep

SpecCache == InitFetcher /\ [][NextCache]_vars

\* ---------------------------------------------------------------- deadlines
\* A Date is a time value counted in half hours since 1970-01-01T00:00Z,
\* an Invalid Date (time value NaN), or null where parseDeadline returns null.
Date(time) == [kind |-> "date", time |-> time]

InvalidDate == [kind |-> "invalid", time |-> 0]

NullDate == [kind |-> "null", time |-> 0]

\* ECMAScript MakeDay(year, month, date): month counts from 0 and, like date,
\* may run past the end of the year or of the month
MakeDay(year, month, date) ==
  LET ym == year + (month \div 12)
      mn == month % 12
      DayFromYear == 365 * (ym - 1970) + ((ym - 1969) \div 4) - ((ym - 1901) \div 100)
                       + ((ym - 1601) \div 400)
      InLeapYear == (ym % 4 = 0 /\ ym % 100 # 0) \/ ym % 400 = 0
      DaysBeforeMonth == <<0, 31, 59, 90, 120, 151, 181, 212, 243, 273, 304, 334>>
  IN DayFromYear + DaysBeforeMonth[mn + 1] + (IF mn >= 2 /\ InLeapYear THEN 1 ELSE 0)
       + date - 1

\* new Date(year, month, day): midnight in the local time zone, which is tz ahead of UTC
LocalDate(year, month, day, tz) == Date(MakeDay(year, month, day) * DAY - tz)

\* Date.now() when the clock of the model shows t: the clock starts on 2026-01-01T00:00Z
DateNow(t) == MakeDay(2026, 0, 1) * DAY + t

\* the local time zones of the process: UTC-5, UTC, UTC+1
TimeZones == {0 - 5 * HOUR, 0, HOUR}

\* The deadline strings. fmt is the shape of the text and the other fields are the
\* numbers written in it: "30 January 2026" is [fmt |-> "D Month YYYY", d |-> 30,
\* m |-> 1, y |-> 2026], "January 30th, 2026" has fmt "Month Dth, YYYY",
\* "2026-01-30" has fmt "YYYY-MM-DD", and "30/01/2026" is
\* [fmt |-> "N/N/YYYY", a |-> 30, b |-> 1, y |-> 2026].
\* The last four are null or undefined, the empty string, a string of spaces
\* and a text with no date in it.
DeadlineStrings ==
  LET numbers == {1, 5, 12, 13, 30, 45}
  IN [fmt : {"D Month YYYY", "Month Dth, YYYY", "YYYY-MM-DD"},
      d : {1, 5, 30}, m : {1, 5, 12}, y : {2026}]
     \cup [fmt : {"N/N/YYYY"}, a : numbers, b : numbers, y : {2026}]
     \cup [fmt : {"null", "", " ", "garbage"}]

\* new Date(trimmed) in V8: a date-only ISO string is midnight UTC; the other
\* texts go to the legacy parser, which reads "D Month YYYY" and month/day/year
\* as local time and gives up on a word that follows a number ("30th") and on a
\* month over 12 or a day over 31
nativeDate(s, tz) ==
  CASE s.fmt = "YYYY-MM-DD" -> Date(MakeDay(s.y, s.m - 1, s.d) * DAY)
    [] s.fmt = "D Month YYYY" -> LocalDate(s.y, s.m - 1, s.d, tz)
    [] s.fmt = "N/N/YYYY" ->
         IF s.a \in 1..12 /\ s.b \in 1..31
         THEN LocalDate(s.y, s.a - 1, s.b, tz) ELSE InvalidDate
    [] OTHER -> InvalidDate

\* the branch of formats[2]: D/M/YYYY, or M/D/YYYY when day > 31 or month > 11
slashDate(s, tz) ==
  LET day == s.a
      month == s.b - 1
      year == s.y
  IN IF day > 31 \/ month > 11
     THEN LocalDate(year, s.a - 1, s.b, tz)
     ELSE LocalDate(year, month, day, tz)

\* parseDeadline(deadline), run in the time zone tz
parseDeadline(s, tz) ==
  IF s.fmt \in {"null", ""} THEN NullDate
  ELSE IF s.fmt = " " THEN NullDate
  ELSE IF nativeDate(s, tz).kind = "date" THEN nativeDate(s, tz)
  ELSE CASE s.fmt = "D Month YYYY" -> LocalDate(s.y, s.m - 1, s.d, tz)
         [] s.fmt = "Month Dth, YYYY" -> LocalDate(s.y, s.m - 1, s.d, tz)
         [] s.fmt = "N/N/YYYY" -> slashDate(s, tz)
         [] s.fmt = "YYYY-MM-DD" -> LocalDate(s.y, s.m - 1, s.d, tz)
         [] OTHER -> IF nativeDate(s, tz).kind = "date" THEN nativeDate(s, tz) ELSE NullDate

\* a fallback that hands on whatever parseDeadline returned
parseDeadlineWithoutFallback(scrapedDeadline, t, tz) == parseDeadline(scrapedDeadline, tz)

\* parseDeadlineWithFallback(scrapedDeadline), called at time t
parseDeadlineWithFallback(scrapedDeadline, t, tz) ==
  LET parsed == parseDeadline(scrapedDeadline, tz)
  IN IF parsed.kind # "null" /\ parsed.kind # "invalid" THEN parsed
     ELSE Date(DateNow(t) + DEFAULT_DEADLINE_DAYS * DAY)

\* a call of parseDeadlineWithFallback, with what parseDeadline returned in it
ParseDeadline(s, tz) ==
  /\ deadline' = [called |-> TRUE, input |-> s, tz |-> tz, at |-> now,
                  parsed |-> parseDeadline(s, tz),
                  used |-> parseDeadlineWithFallback(s, now, tz)]
  /\ UNCHANGED <<pipelineVars, fetcherVars, read, routerVars, cleaned, review>>

NextDeadline ==
  \/ \E s \in DeadlineStrings, tz \in TimeZones : ParseDeadline(s, tz)
  \/ Tick

SpecDeadline == InitFetcher /\ [][NextDeadline]_vars

\* ------------------------------------------- createAIDraft, with its deadline
\* the deadline texts the scraped listings and details carry here
DraftDeadlines ==
  {[fmt |-> "null"], [fmt |-> "garbage"],
   [fmt |-> "N/N/YYYY", a |-> 30, b |-> 1, y |-> 2026],
   [fmt |-> "Month Dth, YYYY", d |-> 5, m |-> 12, y |-> 2026],
   [fmt |-> "YYYY-MM-DD", d |-> 30, m |-> 1, y |-> 2026]}

\* createAIDraftsFromListings passes no details
NoDetails == [deadline |-> [fmt |-> "null"]]

\* details?.deadline || listing.deadline: null and the empty string are falsy
scrapedDeadline(listing, details) ==
  IF details.deadline.fmt \notin {"null", ""} THEN details.deadline ELSE listing.deadline

\* the data of prisma.aIDraft.create, with the deadline and the raw scraped data,
\* when createAIDraft runs at time t in the time zone tz
aiDraftData(listing, details, crawlSourceId, sourceUrl, isDetailsCrawled, t, tz) ==
  [sourceUrl |-> sourceUrl, crawlSourceId |-> crawlSourceId, status |-> "PENDING",
   isDetailsCrawled |-> isDetailsCrawled,
   deadline |-> parseDeadlineWithFallback(scrapedDeadline(listing, details), t, tz),
   rawScrapedData |-> [listing |-> listing, details |-> details]]

\* createAIDraft(data) as a whole, for a draft that is not there yet; the calls
\* that return false (a draft found, or the insert throwing) leave the table as it is
MaterializeDraft(listing, details, crawlSourceId, sourceUrl, isDetailsCrawled, tz) ==
  /\ BagCardinality(drafts) < MaxDrafts
  /\ isDetailsCrawled \/ details = NoDetails
  /\ existingDraft(sourceUrl, crawlSourceId) = {}
  /\ drafts' = drafts (+) SetToBag({aiDraftData(listing, details, crawlSourceId, sourceUrl,
                                                isDetailsCrawled, now, tz)})
  /\ UNCHANGED <<sources, listingJobs, detailJobs, cache, now, sweep, faults, overlapped>>
  /\ UNCHANGED outsideVars

NextDraft ==
  \/ \E l \in DraftDeadlines, d \in DraftDeadlines, o \in OppIds, i \in BOOLEAN, tz \in TimeZones :
       MaterializeDraft([deadline |-> l], [deadline |-> d], "s1",
                        constructOpportunityDetailsPage(sources["s1"].scraperType, o), i, tz)
  \/ Tick

SpecDraft == InitFetcher /\ [][NextDraft]_vars

\* ------------------------------------------------------------ AIModelRouter
\* retries: config.maxRetries || 3, every config here having maxRetries 3
RouterRetries == 3

\* what calls of one generate can meet: up[i][k] says that the provider of
\* config i answers a request made with its key k
Availabilities(configs) == [configs -> [0..(KeysPerConfig - 1) -> BOOLEAN]]

\* response.choices[0].message.content of the provider of config i under key k
content(i, k) == <<"text of", i, k>>

\* rotateApiKey(modelIndex)
rotateApiKey(r, modelIndex) ==
  [r EXCEPT !.apiKeyIndices[modelIndex] = (@ + 1) % KeysPerConfig]

\* retry(() => callOpenAI(config, options), { retries, onRetry }) on config i, with
\* left retries to go: a failed call that is followed by a retry rotates the key
\* (onRetry), the last failed call is thrown on as it is
RECURSIVE retryCallOpenAI(_, _, _, _)
retryCallOpenAI(r, i, left, up) ==
  LET k == r.apiKeyIndices[i]
  IN IF up[i][k]
     THEN [router |-> r, ok |-> TRUE, text |-> content(i, k), tried |-> {<<i, k>>}]
     ELSE IF left = 0
     THEN [router |-> r, ok |-> FALSE, text |-> <<>>, tried |-> {<<i, k>>}]
     ELSE [retryCallOpenAI(rotateApiKey(r, i), i, left - 1, up) EXCEPT
             !.tried = @ \cup {<<i, k>>}]

\* fallbackAndRetry(options, tried): the first config that is not in tried is
\* made current and the outcome of its retry is returned or thrown from inside
\* the loop; with every config in tried, 'All model configs failed.' is thrown
fallbackAndRetry(r, tried, up) ==
  LET untried == {i \in r.configs : i \notin tried}
  IN IF untried = {}
     THEN [router |-> r, ok |-> FALSE, text |-> <<>>, tried |-> {}]
     ELSE LET i == CHOOSE x \in untried : \A y \in untried : x <= y
          IN retryCallOpenAI([r EXCEPT !.currentConfigIndex = i], i, RouterRetries, up)

\* generate(options): one call with the current config and key, and on its
\* failure rotateApiKey, tried = [currentConfigIndex] and fallbackAndRetry
generate(r, up) ==
  LET c == r.currentConfigIndex
      k == r.apiKeyIndices[c]
  IN IF up[c][k]
     THEN [router |-> r, ok |-> TRUE, text |-> content(c, k), tried |-> {<<c, k>>}]
     ELSE [fallbackAndRetry(rotateApiKey(r, c), {c}, up) EXCEPT
             !.tried = @ \cup {<<c, k>>}]

\* a call of generate, from its first request to its return or throw
Generate(up) ==
  /\ router' = generate(router, up).router
  /\ generated' = [called |-> TRUE, up |-> up, ok |-> generate(router, up).ok,
                   text |-> generate(router, up).text,
                   tried |-> generate(router, up).tried]
  /\ UNCHANGED <<pipelineVars, fetcherVars, read, cleaned, deadline, review>>

InitRouter ==
  \E n \in 1..MaxConfigs :
    InitPipeline("LINKEDIN") /\ faults = 0 /\ overlapped = FALSE /\ OutsideInit(n)

NextRouter == \E up \in Availabilities(router.configs) : Generate(up)

SpecRouter == InitRouter /\ [][NextRouter]_vars

\* ------------------------------------------------------------- cleanLLMJson
\* The JSON values of the responses: an object is the function from its field
\* names to the kinds of their values, an array has a sequence of items, each
\* an object or null.
JsonValue(kind, fields, items) == [kind |-> kind, fields |-> fields, items |-> items]

JsonValues ==
  LET objects == {JsonValue("object", f, <<>>) :
                    f \in UNION {[S -> {"number", "string"}] : S \in SUBSET {"a", "b"}}}
      elements == objects \cup {JsonValue("null", <<>>, <<>>)}
  IN objects \cup {JsonValue("array", <<>>, q) : q \in SeqsUpTo(elements, MaxItems)}

\* whether the text of v holds a string after a colon, the match of
\* /: *"([^"\\]*(?:\\.[^"\\]*)*)"/
hasStringField(v) ==
  \/ \E f \in DOMAIN v.fields : v.fields[f] = "string"
  \/ \E i \in DOMAIN v.items : \E f \in DOMAIN v.items[i].fields : v.items[i].fields[f] = "string"

\* The responses: the text of a JSON value, fenced with ```json ... ``` or not,
\* in one of the forms "json" (the text JSON.stringify gives), "unescaped quote"
\* (a double quote stands unescaped inside one of its strings) and "escaped
\* quotes" (the quotes around its strings carry a backslash); and a text that
\* holds no JSON, the value of which is not used.
LLMResponses ==
  {r \in [fenced : BOOLEAN, form : {"json", "unescaped quote", "text"}, value : JsonValues] :
     /\ r.form = "unescaped quote" => hasStringField(r.value)
     /\ r.form = "text" => r.value = JsonValue("object", <<>>, <<>>)}

\* (response ?? '').replace(/^```json\s*|\s*```$/g, '')
strip(llmResponse) == [llmResponse EXCEPT !.fenced = FALSE]

\* JSON.parse(text) returns the value of a text in the form "json" and throws
\* a SyntaxError on every other text
JSONparses(text) == ~text.fenced /\ text.form = "json"

\* strippedResponse.replace(/: *"(...)"/g, (match) => match.replace(/([^\\])"/g,
\* '$1\\"').replace(/^: *"/, ': "')): in each match the closing quote and the
\* opening quote get a backslash, and the last replace, which looks for the
\* opening quote right after the colon and the spaces, no longer finds it
fixJson(text) ==
  IF text.form # "text" /\ hasStringField(text.value)
  THEN [text EXCEPT !.form = "escaped quotes"] ELSE text

\* parsedHint.every((item) => typeof item[field] === 'undefined') from item i on:
\* "true", "false", or "TypeError" when item[field] is read from null
RECURSIVE everyUndefined(_, _, _)
everyUndefined(items, field, i) ==
  IF i > Len(items) THEN "true"
  ELSE IF items[i].kind = "null" THEN "TypeError"
  ELSE IF field \in DOMAIN items[i].fields THEN "false"
  ELSE everyUndefined(items, field, i + 1)

\* requiredFields.filter(...) and the check of missingFields.length: "none",
\* "Missing required fields" (the Error thrown then) or "TypeError"
missingFields(parsedHint, requiredFields) ==
  LET undefinedIn(field) ==
        IF parsedHint.kind = "array" THEN everyUndefined(parsedHint.items, field, 1)
        ELSE IF field \in DOMAIN parsedHint.fields THEN "false" ELSE "true"
  IN IF \E field \in requiredFields : undefinedIn(field) = "TypeError" THEN "TypeError"
     ELSE IF \E field \in requiredFields : undefinedIn(field) = "true"
          THEN "Missing required fields" ELSE "none"

\* cleanLLMJson({ response, requiredFields }): the value returned, or that it threw
cleanLLMJson(llmResponse, requiredFields) ==
  LET strippedResponse == strip(llmResponse)
      fixedJson == fixJson(strippedResponse)
      passes(text) == JSONparses(text) /\ missingFields(text.value, requiredFields) = "none"
  IN IF passes(strippedResponse) THEN [threw |-> FALSE, value |-> strippedResponse.value]
     ELSE IF passes(fixedJson) THEN [threw |-> FALSE, value |-> fixedJson.value]
     ELSE [threw |-> TRUE, value |-> JsonValue("null", <<>>, <<>>)]

\* a call of cleanLLMJson; the calls do not depend on one another, one is followed
CleanLLMJson(llmResponse, requiredFields) ==
  /\ ~cleaned.called
  /\ cleaned' = [called |-> TRUE, response |-> llmResponse, requiredFields |-> requiredFields,
                 threw |-> cleanLLMJson(llmResponse, requiredFields).threw,
                 value |-> cleanLLMJson(llmResponse, requiredFields).value]
  /\ UNCHANGED <<pipelineVars, fetcherVars, read, routerVars, deadline, review>>

NextClean ==
  \E llmResponse \in LLMResponses, requiredFields \in SUBSET {"a", "b"} :
    CleanLLMJson(llmResponse, requiredFields)

SpecClean == InitFetcher /\ [][NextClean]_vars

\* ----------------------------------------------------------- AIDraftService
\* the calls on one draft; a call is at "update" (reviewAIDraft before its write),
\* at "publish", "create" or "publishUpdate" (publishAIDraft before its read, its
\* insert, its write), or "done"
reviewCall(op, pc, outcome) ==
  [op |-> op, pc |-> pc, outcome |-> outcome, opportunity |-> NoOpportunity]

\* reviewAIDraft(id, reviewData, reviewerId) up to its update: findUnique and the
\* checks on what it read
ReviewFind(status, rejectionReason) ==
  /\ Len(review.calls) < MaxReviewCalls
  /\ review' = [review EXCEPT !.calls = Append(@,
       IF review.status # "PENDING" THEN reviewCall(status, "done", "BadRequest")
       ELSE IF status = "REJECTED" /\ ~rejectionReason
            THEN reviewCall(status, "done", "BadRequest")
            ELSE reviewCall(status, "update", "none"))]
  /\ UNCHANGED <<pipelineVars, fetcherVars, read, routerVars, cleaned, deadline>>

\* prisma.aIDraft.update({ data: { status: reviewData.status, ... } }), and for
\* APPROVED the auto-publish: opportunityType.findFirst({ name: 'General' }),
\* then this.publishAIDraft(id, ...) when the type exists
ReviewUpdate(c) ==
  /\ review.calls[c].pc = "update"
  /\ \E defaultOpportunityType \in BOOLEAN :
       review' = [review EXCEPT
         !.status = review.calls[c].op,
         !.calls[c] = IF review.calls[c].op = "APPROVED" /\ defaultOpportunityType
                      THEN [@ EXCEPT !.pc = "publish"]
                      ELSE [@ EXCEPT !.pc = "done", !.outcome = "ok"]]
  /\ UNCHANGED <<pipelineVars, fetcherVars, read, routerVars, cleaned, deadline>>

\* publishAIDraft(id, publishData) is called from outside
PublishStart ==
  /\ Len(review.calls) < MaxReviewCalls
  /\ review' = [review EXCEPT !.calls = Append(@, reviewCall("publish", "publish", "none"))]
  /\ UNCHANGED <<pipelineVars, fetcherVars, read, routerVars, cleaned, deadline>>

\* publishAIDraft up to its insert: findUnique and the checks on what it read;
\* reviewAIDraft catches what its publishAIDraft throws and returns the review
PublishFind(c) ==
  /\ review.calls[c].pc = "publish"
  /\ review' = [review EXCEPT !.calls[c] =
       IF review.status # "APPROVED" \/ review.opportunityId # NoOpportunity
       THEN [@ EXCEPT !.pc = "done",
                      !.outcome = IF review.calls[c].op = "publish" THEN "BadRequest"
                                  ELSE "ok"]
       ELSE [@ EXCEPT !.pc = "create"]]
  /\ UNCHANGED <<pipelineVars, fetcherVars, read, routerVars, cleaned, deadline>>

\* const opportunity = await prisma.opportunity.create({ data: {...} })
PublishCreate(c) ==
  /\ review.calls[c].pc = "create"
  /\ review' = [review EXCEPT !.opportunities = @ + 1,
                              !.calls[c].opportunity = review.opportunities + 1,
                              !.calls[c].pc = "publishUpdate"]
  /\ UNCHANGED <<pipelineVars, fetcherVars, read, routerVars, cleaned, deadline>>

\* prisma.aIDraft.update({ data: { status: 'PUBLISHED', opportunityId: opportunity.id } })
PublishUpdate(c) ==
  /\ review.calls[c].pc = "publishUpdate"
  /\ review' = [review EXCEPT !.status = "PUBLISHED",
                              !.opportunityId = review.calls[c].opportunity,
                              !.calls[c].pc = "done", !.calls[c].outcome = "ok"]
  /\ UNCHANGED <<pipelineVars, fetcherVars, read, routerVars, cleaned, deadline>>

\* reviews and publications of one draft, overlapping as requests do
NextReview ==
  \/ \E status \in {"APPROVED", "REJECTED"}, rejectionReason \in BOOLEAN :
       ReviewFind(status, rejectionReason)
  \/ \E c \in DOMAIN review.calls : ReviewUpdate(c)
  \/ PublishStart
  \/ \E c \in DOMAIN review.calls : PublishFind(c)
  \/ \E c \in DOMAIN review.calls : PublishCreate(c)
  \/ \E c \in DOMAIN review.calls : PublishUpdate(c)

SpecReview == InitFetcher /\ [][NextReview]_vars

\* =============================================================== properties
\* how many rows of the table B of drafts have the natural key (sourceUrl, crawlSourceId)
DraftsWithKey(B, sourceUrl, crawlSourceId) ==
  BagCardinality([d \in {x \in BagToSet(B) : /\ x.sourceUrl = sourceUrl
                                              /\ x.crawlSourceId = crawlSourceId} |-> B[d]])

\* how many rows of the table B of drafts belong to a source
DraftsOfSource(B, crawlSourceId) ==
  BagCardinality([d \in {x \in BagToSet(B) : x.crawlSourceId = crawlSourceId} |-> B[d]])

\* the Detail jobs in the queue q that Listing job j enqueued
EnqueuedBy(q, j) == SelectSeq(q, LAMBDA d : d.parent = j)

Distinct(l) == \A a, b \in DOMAIN l : l[a] = l[b] => a = b

\* the URL of the item page the code derives from entry i of Listing job job
EntryUrl(job, i) ==
  <<IF job.scraperType = "LINKEDIN" THEN "https://www.linkedin.com/jobs/view/"
    ELSE "https://opportunitiesforafricans.com/", job.result.opportunity_listings[i]>>

ListingFindsDraft(job) ==
  /\ job.state = "active" /\ job.pc = "draftFind"
  /\ DraftsWithKey(drafts, EntryUrl(job, job.idx), job.crawlSourceId) >= 1

DetailsFindsDraft(job) ==
  /\ job.state = "active" /\ job.pc = "draftFind"
  /\ DraftsWithKey(drafts, <<IF job.scraperType = "LINKEDIN"
                               THEN "https://www.linkedin.com/jobs/view/"
                               ELSE "https://opportunitiesforafricans.com/",
                             job.opportunityId>>, job.crawlSourceId) >= 1

\* C2: materialization is idempotent and first-write-wins. A createAIDraft call
\* that finds a draft with its (sourceUrl, crawlSourceId) inserts nothing and
\* reports created = false (the Listing job's count of created drafts stays, the
\* Detail job completes with aiDraftCreated = false); no step removes or changes
\* a stored draft; and as long as job attempts ran one after the other, no
\* (sourceUrl, crawlSourceId) has more than one draft.
C2_Idempotent ==
  [][/\ \A j \in DOMAIN listingJobs :
          (ListingFindsDraft(listingJobs[j]) /\ listingJobs'[j] # listingJobs[j]) =>
             /\ drafts' = drafts
             /\ listingJobs'[j].created = listingJobs[j].created
             /\ listingJobs'[j].pc # "draftCreate"
     /\ \A j \in DOMAIN detailJobs :
          (DetailsFindsDraft(detailJobs[j]) /\ detailJobs'[j] # detailJobs[j]) =>
             /\ drafts' = drafts
             /\ detailJobs'[j].state = "completed"
             /\ ~detailJobs'[j].aiDraftCreated
     /\ \A d \in BagToSet(drafts) : CopiesIn(d, drafts') >= CopiesIn(d, drafts)
     /\ ~overlapped' =>
          \A d \in BagToSet(drafts') :
             DraftsWithKey(drafts', d.sourceUrl, d.crawlSourceId) = 1
  ]_vars

\* a second run of a Listing job, one run after the other, has skipped every
\* entry of its batch: it is about to complete having created no draft
C2_Witness ==
  /\ ~overlapped
  /\ \E j \in DOMAIN listingJobs :
       /\ listingJobs[j].state = "active" /\ listingJobs[j].pc = "updateSuccess"
       /\ ~listingJobs[j].crawlSource.isDetailsCrawled
       /\ listingJobs[j].result.total_found = 2
       /\ listingJobs[j].created = 0
       /\ DraftsOfSource(drafts, listingJobs[j].crawlSourceId) >= 1

\* C3: at most one draft exists for any pair (sourceUrl, crawlSourceId)
C3_AtMostOneDraft ==
  \A d \in BagToSet(drafts) : CopiesIn(d, drafts) = 1

\* the message of the failure of a Listing job's attempt, given its scrape result
FailureMessage(result) ==
  IF Len(result.errors) > 0
  THEN [text |-> <<"Crawl failed: ">> \o result.errors[1].text,
        len |-> 14 + result.errors[1].len]
  ELSE [text |-> <<"No opportunities found">>, len |-> 22]

Period(frequency) ==
  CASE frequency = "DAILY" -> 24 * HOUR
    [] frequency = "WEEKLY" -> 7 * 24 * HOUR
    [] frequency = "MONTHLY" -> 30 * 24 * HOUR

\* whether the step completes Listing job j
Completes(j) == listingJobs[j].state = "active" /\ listingJobs'[j].state = "completed"

\* whether the step ends an attempt of Listing job j with a failure
Fails(j) == listingJobs[j].state = "active" /\ listingJobs'[j].state \in {"waiting", "failed"}

\* C6: the step that completes a Listing job sets the source's nextCrawlAt to the
\* time of the run plus the period of its frequency
C6_AdvancesNextCrawlAt ==
  [][\A j \in DOMAIN listingJobs :
       Completes(j) =>
         LET s == listingJobs[j].crawlSourceId
         IN sources'[s].nextCrawlAt = now + Period(sources[s].frequency)
  ]_vars

\* C7: the step that completes a Listing job with N entries adds exactly N to the
\* source's opportunitiesFound; the step that ends a failed attempt leaves it as it is
C7_CountsEntries ==
  [][\A j \in DOMAIN listingJobs :
       LET s == listingJobs[j].crawlSourceId
       IN /\ Completes(j) =>
               sources'[s].opportunitiesFound =
                 sources[s].opportunitiesFound + listingJobs[j].result.total_found
          /\ Fails(j) => sources'[s].opportunitiesFound = sources[s].opportunitiesFound
  ]_vars

\* C8: opportunitiesFound never decreases
C8_Monotonic ==
  [][\A s \in SourceIds : sources'[s].opportunitiesFound >= sources[s].opportunitiesFound]_vars

\* C9: a sweep selects exactly the sources with isActive and nextCrawlAt <= now,
\* each once; it enqueues one waiting Listing job for each selected source, in
\* turn, and no step enqueues a sweep job otherwise; right after enqueueing the
\* job of a source it sets that source's nextCrawlAt to now plus the period of
\* its frequency, which is later than now, so a sweep before that time does not
\* select the source; and it returns the number of selected sources as jobsQueued.
C9_Sweep ==
  [][/\ (sweep.pc = "idle" /\ sweep' # sweep) =>
          /\ Range(sweep'.selected) =
               {s \in SourceIds : sources[s].isActive /\ sources[s].nextCrawlAt <= now}
          /\ Distinct(sweep'.selected)
          /\ \A s \in SourceIds : now < sources[s].nextCrawlAt => s \notin Range(sweep'.selected)
          /\ sweep'.pc = "idle" => sweep'.jobsQueued = Len(sweep'.selected)
          /\ listingJobs' = listingJobs
     /\ (/\ Len(listingJobs') > Len(listingJobs)
         /\ listingJobs'[Len(listingJobs')].origin = "sweep") =>
          /\ sweep.pc = "queue"
          /\ listingJobs'[Len(listingJobs')].crawlSourceId = sweep.selected[sweep.i]
     /\ sweep.pc = "queue" /\ sweep' # sweep =>
          LET s == sweep.selected[sweep.i]
              added == listingJobs'[Len(listingJobs')]
          IN /\ Len(listingJobs') = Len(listingJobs) + 1
             /\ SubSeq(listingJobs', 1, Len(listingJobs)) = listingJobs
             /\ added.crawlSourceId = s /\ added.origin = "sweep"
             /\ added.state = "waiting" /\ added.attemptsMade = 0
             /\ sources[s].isActive /\ sources[s].nextCrawlAt <= now
             /\ sweep'.pc = "update" /\ sweep'.i = sweep.i
             /\ sweep'.jobsQueued = sweep.i - 1
     /\ sweep.pc = "update" /\ sweep' # sweep =>
          LET s == sweep.selected[sweep.i]
          IN /\ sources'[s].nextCrawlAt = now + Period(sources[s].frequency)
             /\ sources'[s].nextCrawlAt > now
             /\ listingJobs' = listingJobs
             /\ sweep'.jobsQueued = sweep.i
             /\ IF sweep.i < Len(sweep.selected)
                THEN sweep'.pc = "queue" /\ sweep'.i = sweep.i + 1
                ELSE sweep'.pc = "idle" /\ sweep'.jobsQueued = Len(sweep.selected)
  ]_vars

\* the job a sweep enqueued for a source is still waiting or running, and a later
\* sweep, before the source's new nextCrawlAt, has selected nothing
C9_Witness ==
  \E j \in DOMAIN listingJobs :
    /\ listingJobs[j].origin = "sweep"
    /\ listingJobs[j].state \in {"waiting", "active"}
    /\ now < sources[listingJobs[j].crawlSourceId].nextCrawlAt
    /\ sweep.pc = "idle" /\ sweep.selected = <<>> /\ sweep.jobsQueued = 0
    /\ Cardinality({k \in DOMAIN listingJobs :
                      listingJobs[k].crawlSourceId = listingJobs[j].crawlSourceId}) = 1

C12_AtMostThreeAttempts ==
  \A c \in DOMAIN calls :
    /\ calls[c].attempts <= 3
    /\ (calls[c].pc = "done" /\ ~calls[c].hit) =>
          \/ calls[c].result = [data |-> <<"page of", calls[c].url>>, error |-> <<>>]
          \/ calls[c].failed = 3 /\ calls[c].result.error # <<>>

\* C13: a call of scrape whose retries are exhausted returns error set and content null
C13_ExhaustedHasNoContent ==
  \A c \in DOMAIN calls :
    (calls[c].pc = "done" /\ calls[c].failed = calls[c].attempts /\ calls[c].failed >= 1) =>
      /\ calls[c].result.error # <<>>
      /\ calls[c].result.data = <<>>

\* C14: after a call that fetched a URL, a later call for the URL that starts
\* within 24 hours makes no request to the external service and returns the
\* content of the first call with no error
C14_ServedFromCache ==
  \A c, e \in DOMAIN calls :
    (/\ c < e /\ calls[c].url = calls[e].url
     /\ calls[c].pc = "done" /\ ~calls[c].hit /\ calls[c].result.error = <<>>
     /\ calls[e].pc = "done"
     /\ calls[e].startedAt < calls[c].returnedAt + 24 * HOUR) =>
      /\ calls[e].attempts = 0
      /\ calls[e].result.data = calls[c].result.data
      /\ calls[e].result.error = <<>>

\* C15: a Detail job that found no entry under its cache key has failed for
\* good: it never gets past the cache lookup again, it never completes and it
\* creates no draft.
C15_MissIsPermanent ==
  \A j \in DOMAIN detailJobs :
    detailJobs[j].missed =>
      /\ detailJobs[j].state \in {"waiting", "failed"}
      /\ ~detailJobs[j].aiDraftCreated

\* C16: a read of the listing cache finds the entry written at T, with its
\* listings, at every time before T + 24 h, logs the staleness warning exactly
\* when the entry is older than 23 h, and finds nothing from T + 24 h on or
\* when nothing was written.
C16_CacheWindow ==
  [][CacheRead =>
       LET entry == cache[ListingKey]
       IN IF entry.timestamp # NoTime /\ now < entry.timestamp + 24 * HOUR
          THEN /\ read'.found
               /\ read'.listings = entry.listings
               /\ read'.staleWarning <=> (now - entry.timestamp > 23 * HOUR)
          ELSE ~read'.found /\ ~read'.staleWarning]_vars

\* a read 23 h 30 min after the write returned the listings with a warning
C16_Witness ==
  /\ read.found /\ read.staleWarning /\ read.age = 47
  /\ read.listings = <<"o1", "o2">>

\* C17: every draft that createAIDraft adds has status PENDING, the
\* crawlSourceId and the sourceUrl of the call, and a valid deadline: what the
\* deadline text parses to, the text of the details going before the text of
\* the listing, or the time of the call + 30 days when the text is missing or
\* cannot be parsed.
C17_DraftFields ==
  [][\A l \in DraftDeadlines, d \in DraftDeadlines, o \in OppIds, i \in BOOLEAN, tz \in TimeZones :
       LET u == constructOpportunityDetailsPage(sources["s1"].scraperType, o)
           text == IF d.fmt # "null" THEN d ELSE l
       IN MaterializeDraft([deadline |-> l], [deadline |-> d], "s1", u, i, tz) =>
            \E row \in BagToSet(drafts') :
              /\ drafts' = drafts (+) SetToBag({row})
              /\ row.status = "PENDING"
              /\ row.crawlSourceId = "s1" /\ row.sourceUrl = u
              /\ row.deadline.kind = "date"
              /\ row.deadline =
                   IF text.fmt \in {"null", "garbage"}
                   THEN Date(DateNow(now) + 30 * DAY)
                   ELSE parseDeadline(text, tz)]_vars

\* a draft made a day after the start from details without a readable deadline,
\* next to a draft that took the deadline of its details before its listing's
C17_Witness ==
  /\ now = DAY
  /\ \E row \in BagToSet(drafts) :
       /\ row.rawScrapedData.details.deadline.fmt = "garbage"
       /\ row.rawScrapedData.listing.deadline.fmt = "YYYY-MM-DD"
       /\ row.deadline = Date(DateNow(DAY) + 30 * DAY)
  /\ \E row \in BagToSet(drafts) :
       /\ row.rawScrapedData.details.deadline.fmt = "N/N/YYYY"
       /\ row.rawScrapedData.listing.deadline.fmt = "YYYY-MM-DD"
       /\ row.deadline = LocalDate(2026, 0, 30, HOUR)

\* C18: generate fails only after every configured provider has been tried,
\* and it returns a text whenever some configured provider answers (under each
\* of its keys).
C18_TriesEveryProvider ==
  generated.called =>
    /\ ~generated.ok =>
         \A i \in router.configs : \E k \in 0..(KeysPerConfig - 1) : <<i, k>> \in generated.tried
    /\ (\E i \in router.configs : \A k \in 0..(KeysPerConfig - 1) : generated.up[i][k])
         => generated.ok

\* C19: for a response that is the text of a JSON object or array, cleanLLMJson
\* throws exactly when a required field is missing from the object or, for an
\* array, from every item; what it returns then is the value of the response.
C19_RequiredFields ==
  (cleaned.called /\ cleaned.response.form = "json") =>
    LET v == cleaned.response.value
        carries(item, f) == item.kind = "object" /\ f \in DOMAIN item.fields
        missing(f) == IF v.kind = "array"
                      THEN \A i \in DOMAIN v.items : ~carries(v.items[i], f)
                      ELSE f \notin DOMAIN v.fields
    IN /\ cleaned.threw <=> \E f \in cleaned.requiredFields : missing(f)
       /\ ~cleaned.threw => cleaned.value = v

\* C20: parseDeadline maps "30 January 2026", "January 30th, 2026", "2026-01-30"
\* and "30/01/2026" to the calendar date 2026-01-30 and reads every D/M/YYYY text
\* day first (the date being read off in local time or in UTC); for null, an
\* empty text and a text without a date the deadline used is now + 30 days.
C20_ParseDeadline ==
  deadline.called =>
    LET s == deadline.input
        onDay(date, y, m, d) ==
          /\ date.kind = "date"
          /\ \E zone \in {0, deadline.tz} :
               /\ LocalDate(y, m - 1, d, zone).time <= date.time
               /\ date.time < LocalDate(y, m - 1, d, zone).time + DAY
    IN /\ (s.fmt \in {"D Month YYYY", "Month Dth, YYYY", "YYYY-MM-DD"}
             /\ s.d = 30 /\ s.m = 1 /\ s.y = 2026) => onDay(deadline.parsed, 2026, 1, 30)
       /\ (s.fmt = "N/N/YYYY" /\ s.a <= 31 /\ s.b <= 12) => onDay(deadline.parsed, s.y, s.b, s.a)
       /\ s.fmt \in {"null", "", " ", "garbage"} =>
            deadline.used = Date(DateNow(deadline.at) + 30 * DAY)

\* C21: every Detail job in the queue carries a cache key under which a batch
\* holding the job's opportunityId has already been written.
C21_CachedBeforeEnqueued ==
  \A j \in DOMAIN detailJobs :
    detailJobs[j].opportunityId \in cache[detailJobs[j].cacheKey].written

\* the Detail job of the second entry of a batch still waits for its first
\* attempt when the batch, written before the job was added, has expired
C21_Witness ==
  \E j \in DOMAIN detailJobs :
    /\ detailJobs[j].state = "waiting" /\ detailJobs[j].attemptsMade = 0
    /\ detailJobs[j].opportunityId = "o2"
    /\ cache[detailJobs[j].cacheKey].listings = <<"o1", "o2">>
    /\ cache[detailJobs[j].cacheKey].expiresAt <= now
    /\ detailJobs[j].opportunityId \in cache[detailJobs[j].cacheKey].written

\* C22: the attempts of a Detail job are its own: a job is run at most 3 times,
\* it is failed for good only by its own third failed attempt, until then it
\* can be taken by a worker whatever became of its siblings, and a step of one
\* Detail job changes no other Detail job.
C22_Independent ==
  /\ [](\A j \in DOMAIN detailJobs :
          /\ detailJobs[j].attemptsMade <= 3
          /\ detailJobs[j].state = "failed" => detailJobs[j].attemptsMade = 3
          /\ detailJobs[j].state = "waiting" =>
               detailJobs[j].attemptsMade < 3 /\ ENABLED DetailsGetCachedData(j))
  /\ [][\A j \in DOMAIN detailJobs :
          detailJobs'[j] # detailJobs[j] =>
            \A k \in DOMAIN detailJobs \ {j} : detailJobs'[k] = detailJobs[k]]_vars

\* a Detail job has failed three times and is failed for good, and its sibling
\* of the same batch has completed with its draft created
C22_Witness ==
  \E j \in DOMAIN detailJobs, k \in DOMAIN detailJobs :
    /\ j # k /\ detailJobs[j].parent = detailJobs[k].parent
    /\ detailJobs[j].state = "failed" /\ detailJobs[j].attemptsMade = 3
    /\ detailJobs[k].state = "completed" /\ detailJobs[k].aiDraftCreated

\* C23: every write of INACTIVE or ERROR to a source's status by a Listing job
\* finds the status ACTIVE, whatever Listing jobs of the source overlap.
C23_TerminalFromActive ==
  [][\A j \in DOMAIN listingJobs :
       (ListingUpdateSuccess(j) \/ ListingUpdateError(j)) =>
         sources[listingJobs[j].crawlSourceId].status = "ACTIVE"]_vars

\* C24: whatever Listing jobs wrote a batch under the cache key and in whatever
\* order, a Detail job that reads the key before it expires finds in the batch
\* every entry a Detail job was spawned for, that is every entry written.
C24_LastWriteKeepsEntries ==
  [][CacheRead =>
       (read'.found => \A o \in cache[ListingKey].written : o \in Range(read'.listings))]_vars

\* C25: a free worker takes a manually triggered Listing job before a waiting
\* bulk-triggered one, and a bulk-triggered job before a waiting scheduled one.
C25_ManualBulkSweep ==
  [][\A j \in DOMAIN listingJobs :
       ListingGetCrawlSource(j) =>
         \A k \in DOMAIN listingJobs :
           listingJobs[k].state = "waiting" =>
             LET rank(job) == CASE job.origin = "manual" -> 3
                                [] job.origin = "bulk" -> 2
                                [] OTHER -> 1
             IN rank(listingJobs[k]) <= rank(listingJobs[j])]_vars

\* C26: in direct materialization an entry whose draft cannot be stored is
\* skipped: the loop goes on with the next entry (or ends after the last one)
\* without counting it, the job stays on its way to the success update from
\* every step of the loop, and that update completes the job and leaves the
\* source INACTIVE.
C26_EntryFailureIsSkipped ==
  /\ [][\A j \in DOMAIN listingJobs :
          ListingDraftCreate(j) /\ drafts' = drafts =>
            LET job == listingJobs[j]
                after == listingJobs'[j]
            IN /\ after.state = "active" /\ after.created = job.created
               /\ IF job.idx < Len(job.result.opportunity_listings)
                  THEN after.idx = job.idx + 1 /\ after.pc = "draftFind"
                  ELSE after.pc = "updateSuccess"]_vars
  /\ [][\A j \in DOMAIN listingJobs :
          listingJobs[j].pc \in {"draftFind", "draftCreate"}
            => listingJobs'[j].pc \in {"draftFind", "draftCreate", "updateSuccess"}]_vars
  /\ [][\A j \in DOMAIN listingJobs :
          listingJobs[j].pc = "updateSuccess" /\ listingJobs'[j] # listingJobs[j]
            => /\ listingJobs'[j].state = "completed"
               /\ sources'[listingJobs[j].crawlSourceId].status = "INACTIVE"]_vars

\* the only job found <<o1, o2>>, failed to store o1, stored o2 and completed
C26_Witness ==
  /\ Len(listingJobs) = 1 /\ listingJobs[1].state = "completed"
  /\ sources[listingJobs[1].crawlSourceId].status = "INACTIVE"
  /\ \E d \in BagToSet(drafts) : ~d.isDetailsCrawled /\ d.sourceUrl[2] = "o2"
  /\ \A d \in BagToSet(drafts) : d.sourceUrl[2] # "o1"

\* C28: a completed Detail job has a draft for its (sourceUrl, crawlSourceId).
C28_CompletedHasDraft ==
  \A j \in DOMAIN detailJobs :
    detailJobs[j].state = "completed" =>
      existingDraft(detailsSourceUrl(detailJobs[j]), detailJobs[j].crawlSourceId) # {}

\* C27: a call of scrape that has returned without exhausting its attempts
\* carries the content of its own URL (fetched, or as read from the cache) and
\* no error, and one that exhausted its attempts carries its own error.
C27_OwnResult ==
  \A c \in DOMAIN calls :
    calls[c].pc = "done" =>
      IF calls[c].failed <= FetchRetries
      THEN calls[c].result.data \in {page(calls[c].url), JSONstringify(page(calls[c].url))}
      ELSE calls[c].result.error = FetchErrorMessage

\* C29: at most one Opportunity is ever created from a draft, a PUBLISHED draft
\* carries the id of that Opportunity, and once the draft is PUBLISHED every
\* further call of publishAIDraft is rejected before it creates anything.
C29_PublishedOnce ==
  /\ [](/\ review.opportunities <= 1
        /\ review.status = "PUBLISHED" => review.opportunityId = 1)
  /\ [][\A c \in DOMAIN review.calls :
          review.status = "PUBLISHED" /\ PublishFind(c) =>
            /\ review'.calls[c].pc = "done"
            /\ review.calls[c].op = "publish" => review'.calls[c].outcome = "BadRequest"]_vars

\* C30: a manual trigger of a missing or inactive source cannot add a job, and one
\* that does add a job adds exactly one, for its source; a bulk trigger adds one
\* job per id, in order, whose source exists and is active, skips the other ids,
\* and returns one job id per job added; neither changes the CrawlSource table.
C30_TriggersSkipInactive ==
  /\ [](\A s \in TriggerIds :
          (s \notin DOMAIN sources \/ ~sources[s].isActive) => ~ENABLED triggerCrawl(s))
  /\ [][\A s \in TriggerIds :
          triggerCrawl(s) =>
            /\ sources' = sources
            /\ Len(listingJobs') = Len(listingJobs) + 1
            /\ listingJobs'[Len(listingJobs')].crawlSourceId = s]_vars
  /\ [][\A ids \in BulkInputs :
          triggerBulkCrawl(ids) =>
            LET kept == SelectSeq(ids, LAMBDA id : /\ id \in DOMAIN sources
                                                  /\ sources[id].isActive)
            IN /\ sources' = sources
               /\ Len(listingJobs') = Len(listingJobs) + Len(kept)
               /\ \A i \in 1..Len(kept) :
                    /\ listingJobs'[Len(listingJobs) + i].crawlSourceId = kept[i]
                    /\ listingJobs'[Len(listingJobs) + i].state = "waiting"
               /\ Len(bulkJobIds(ids)) = Len(kept)
               /\ \A i \in 1..Len(kept) : bulkJobIds(ids)[i] = Len(listingJobs) + i]_vars

\* a bulk trigger has added a job for s1 and none for the inactive s2
C30_Witness ==
  /\ ~sources["s2"].isActive
  /\ \E j \in DOMAIN listingJobs :
       listingJobs[j].origin = "bulk" /\ listingJobs[j].crawlSourceId = "s1"
  /\ \A j \in DOMAIN listingJobs : listingJobs[j].crawlSourceId # "s2"

====
